---- MODULE Spec2Model ----
(***************************************************************************)
(* Model of python-task.py: an in-memory key-value store with nested       *)
(* transactions (class InMemoryDB), kept as a stack of dict overlays.      *)
(*                                                                         *)
(* Python objects are encoded as tagged tuples so that the DELETED marker  *)
(* and None can never be equal to a string:                                *)
(*   Str(s)  = <<"str", s>>       a str object                             *)
(*   DELETED = <<"DELETED">>      the module-level _DeletedMarker instance *)
(*   None    = <<"None">>         Python's None                            *)
(* A dict is a function whose DOMAIN is its key set.                       *)
(***************************************************************************)
EXTENDS Naturals, Sequences, FiniteSets

\* -------------------------------------------------------------- bounds
\* Keys and values the caller may pass, and the deepest layer stack explored
\* (the code itself never limits the nesting depth).
Keys == {"a", "b"}

Values == {"10", "20"}

\* The (key, value) pairs the caller sets: a takes both values, so that an
\* overwrite by a different value is seen; b takes only "10", so that two
\* keys can hold the same value while the state space stays small.
Writes == {<<"a", "10">>, <<"a", "20">>, <<"b", "10">>}

MaxDepth == 3

\* The command loop: the transactions a session opens at once, and the
\* lines of an input stream of known length.
MaxOpen == 1

MaxInput == 3

\* ------------------------------------------------------ Python objects
Str(s) == <<"str", s>>

DELETED == <<"DELETED">>

None == <<"None">>

\* str(value): a str is returned as it is, any other object by its repr.
PyStr(obj) == IF obj[1] = "str" THEN obj ELSE Str("<_DeletedMarker object>")

EmptyDict == [x \in {} |-> None]

\* d[k] = e
DictPut(d, k, e) == [x \in (DOMAIN d) \cup {k} |-> IF x = k THEN e ELSE d[x]]

\* ------------------------------------------------------------- state
VARIABLES
  layers,   \* InMemoryDB._layers: the stack of dicts, base layer first
  call,     \* the method call made last: <<name, arguments...>>
  ret,      \* what that call returned
  saved,    \* history: the value of layers at each still open begin()
  block,    \* history: how far the last calls match the pattern
            \* begin(); one set or unset; commit() or rollback()
  input,    \* main: what the last input() gave: <<"line", tokens>>,
            \* <<"eof">> or <<"interrupt">>
  out,      \* main: the lines printed while the last line was handled
  exit,     \* main: <<>> while the loop runs, <<code>> once main returned
  stdin,    \* the lines left on standard input, <<n>>, or <<>> when the
            \* length of the stream is not known
  script    \* history: how far the input has followed Script, and what was
            \* printed on the way

console == <<input, out, exit, stdin, script>>

vars == <<layers, call, ret, saved, block, input, out, exit, stdin, script>>

\* ------------------------------------------------- InMemoryDB methods
\* The methods as functions of the stack L; those that both mutate and
\* return give a record [ret, layers].

Top(L) == L[Len(L)]

Pop(L) == SubSeq(L, 1, Len(L) - 1)

\* _effective_get over _iter_layers_top_down: idx runs from the top index to
\* the base; the first layer holding the key decides.
RECURSIVE ScanTopDown(_, _, _)
ScanTopDown(L, key, idx) ==
  IF idx = 0 THEN <<FALSE, None>>
  ELSE IF key \in DOMAIN L[idx]
       THEN IF L[idx][key] = DELETED
            THEN <<FALSE, None>>
            ELSE <<TRUE, PyStr(L[idx][key])>>
       ELSE ScanTopDown(L, key, idx - 1)

\* Mutant: a DELETED entry does not stop the scan.
RECURSIVE ScanPastDeleted(_, _, _)
ScanPastDeleted(L, key, idx) ==
  IF idx = 0 THEN <<FALSE, None>>
  ELSE IF key \in DOMAIN L[idx] /\ L[idx][key] # DELETED
       THEN <<TRUE, PyStr(L[idx][key])>>
       ELSE ScanPastDeleted(L, key, idx - 1)

effective_get_past_deleted(L, key) == ScanPastDeleted(L, key, Len(L))

effective_get(L, key) == ScanTopDown(L, key, Len(L))

\* Mutant: writes into the base layer, index 0 for index -1.
set_value_base(L, key, value) == [L EXCEPT ![1] = DictPut(@, key, Str(value))]

set_value(L, key, value) == [L EXCEPT ![Len(L)] = DictPut(@, key, Str(value))]

get_value(L, key) ==
  LET r == effective_get(L, key) IN IF r[1] THEN r[2] ELSE None

\* Mutant: marks the key in every layer, not only in the top one.
unset_value_all(L, key) == [i \in 1 .. Len(L) |-> DictPut(L[i], key, DELETED)]

\* Mutant: removes the key from the top dict instead of marking it.
unset_value_pop(L, key) ==
  [L EXCEPT ![Len(L)] = [x \in (DOMAIN @) \ {key} |-> @[x]]]

unset_value(L, key) == [L EXCEPT ![Len(L)] = DictPut(@, key, DELETED)]

begin(L) == Append(L, EmptyDict)

\* Mutant: drops every open transaction, not only the top one.
rollback_to_base(L) ==
  IF Len(L) = 1
  THEN [ret |-> FALSE, layers |-> L]
  ELSE [ret |-> TRUE, layers |-> <<L[1]>>]

\* Mutant: no test for the base layer.
rollback_unguarded(L) == [ret |-> TRUE, layers |-> Pop(L)]

rollback(L) ==
  IF Len(L) = 1
  THEN [ret |-> FALSE, layers |-> L]
  ELSE [ret |-> TRUE, layers |-> Pop(L)]

\* for k, v in top.items(): below[k] = v
RECURSIVE MergeItems(_, _, _)
MergeItems(below, top, todo) ==
  IF todo = {} THEN below
  ELSE LET k == CHOOSE x \in todo : TRUE
       IN MergeItems(DictPut(below, k, top[k]), top, todo \ {k})

\* Mutant: the top layer is merged into the base layer, index 0 for index -2.
commit_into_base(L) ==
  IF Len(L) = 1
  THEN [ret |-> FALSE, layers |-> L]
  ELSE LET top == L[Len(L)]
           merged == MergeItems(L[1], top, DOMAIN top)
       IN [ret |-> TRUE, layers |-> Pop([L EXCEPT ![1] = merged])]

\* Mutant: the top layer is removed without being merged.
commit_discard(L) ==
  IF Len(L) = 1
  THEN [ret |-> FALSE, layers |-> L]
  ELSE [ret |-> TRUE, layers |-> Pop(L)]

\* Mutant: the top layer replaces the layer below it instead of being merged
\* into it.
commit_replace(L) ==
  IF Len(L) = 1
  THEN [ret |-> FALSE, layers |-> L]
  ELSE [ret |-> TRUE, layers |-> Pop([L EXCEPT ![Len(L) - 1] = L[Len(L)]])]

\* Mutant: the merge keeps the entry of the layer below where both layers
\* hold the key (below.setdefault(k, v)).
commit_keep_below(L) ==
  IF Len(L) = 1
  THEN [ret |-> FALSE, layers |-> L]
  ELSE LET top == L[Len(L)]
           below == L[Len(L) - 1]
           merged == MergeItems(below, top, (DOMAIN top) \ (DOMAIN below))
       IN [ret |-> TRUE, layers |-> Pop([L EXCEPT ![Len(L) - 1] = merged])]

\* Mutant: reports success also when only the base layer exists.
commit_always_true(L) ==
  IF Len(L) = 1
  THEN [ret |-> TRUE, layers |-> L]
  ELSE LET top == L[Len(L)]
           below == L[Len(L) - 1]
           merged == MergeItems(below, top, DOMAIN top)
       IN [ret |-> TRUE, layers |-> Pop([L EXCEPT ![Len(L) - 1] = merged])]

\* Mutant: the merge leaves out the DELETED entries of the top layer.
commit_skip_deleted(L) ==
  IF Len(L) = 1
  THEN [ret |-> FALSE, layers |-> L]
  ELSE LET top == L[Len(L)]
           below == L[Len(L) - 1]
           real == {k \in DOMAIN top : top[k] # DELETED}
           merged == MergeItems(below, top, real)
       IN [ret |-> TRUE, layers |-> Pop([L EXCEPT ![Len(L) - 1] = merged])]

commit(L) ==
  IF Len(L) = 1
  THEN [ret |-> FALSE, layers |-> L]
  ELSE LET top == L[Len(L)]
           below == L[Len(L) - 1]
           merged == MergeItems(below, top, DOMAIN top)
       IN [ret |-> TRUE, layers |-> Pop([L EXCEPT ![Len(L) - 1] = merged])]

\* _all_keys: keys.update(layer.keys()) for every layer, base first
RECURSIVE UnionLayers(_, _)
UnionLayers(L, idx) ==
  IF idx > Len(L) THEN {} ELSE (DOMAIN L[idx]) \cup UnionLayers(L, idx + 1)

\* Mutant: only the keys of the top layer.
all_keys_top(L) == DOMAIN L[Len(L)]

all_keys(L) == UnionLayers(L, 1)

\* The orders in which a for loop can visit a set: str hashes differ from run
\* to run, so every enumeration of the set, each element once, is possible.
RECURSIVE IterOrders(_)
IterOrders(S) ==
  IF S = {} THEN {<<>>}
  ELSE UNION {{<<x>> \o o : o \in IterOrders(S \ {x})} : x \in S}

\* The loop of count_value over the set of keys: a sum, the same in every
\* order of visit.
RECURSIVE CountLoop(_, _, _)
CountLoop(L, value, todo) ==
  IF todo = {} THEN 0
  ELSE LET key == CHOOSE x \in todo : TRUE
           r == effective_get(L, key)
       IN (IF r[1] /\ r[2] = Str(value) THEN 1 ELSE 0)
          + CountLoop(L, value, todo \ {key})

\* Mutant: counts a matching key once for every layer that holds it.
RECURSIVE CountPerLayer(_, _, _)
CountPerLayer(L, value, idx) ==
  IF idx > Len(L) THEN 0
  ELSE CountLoop(L, value, DOMAIN L[idx]) + CountPerLayer(L, value, idx + 1)

count_value_per_layer(L, value) == CountPerLayer(L, value, 1)

count_value(L, value) == CountLoop(L, value, all_keys(L))

\* The loop of find_keys_by_value: found.append(key) in the order of visit.
RECURSIVE FindLoop(_, _, _)
FindLoop(L, value, order) ==
  IF order = <<>> THEN <<>>
  ELSE LET key == Head(order)
           r == effective_get(L, key)
       IN (IF r[1] /\ r[2] = Str(value) THEN <<key>> ELSE <<>>)
          \o FindLoop(L, value, Tail(order))

\* Python orders str by code point; the keys here are one character long.
Ord(ch) == [a |-> 97, b |-> 98, c |-> 99][ch]

StrLess(x, y) == Ord(x) < Ord(y)

\* list.sort(): ascending, as an insertion sort
RECURSIVE InsertSorted(_, _)
InsertSorted(sorted, x) ==
  IF sorted = <<>> THEN <<x>>
  ELSE IF StrLess(x, Head(sorted)) THEN <<x>> \o sorted
       ELSE <<Head(sorted)>> \o InsertSorted(Tail(sorted), x)

RECURSIVE ListSort(_)
ListSort(xs) ==
  IF xs = <<>> THEN <<>> ELSE InsertSorted(ListSort(Tail(xs)), Head(xs))

\* Mutant: found is returned as the loop left it, without found.sort().
find_keys_unsorted(L, value, order) == FindLoop(L, value, order)

\* order is the order in which the loop visits _all_keys().
find_keys_by_value(L, value, order) == ListSort(FindLoop(L, value, order))

\* ------------------------------------------------------------ history
\* block is <<"begin">> right after begin(), <<"begin", c>> when the one call
\* c (a set or an unset) followed it, <<"begin", c, "commit">> or
\* <<"begin", c, "rollback">> when that transaction was then closed,
\* <<"begin", c, "commit", "rollback">> when a rollback of the enclosing
\* transaction followed the commit, and NoBlock when the last calls do not
\* match.
NoBlock == <<"none">>

AfterWrite(b, c) == IF b = <<"begin">> THEN <<"begin", c>> ELSE NoBlock

AfterClose(b, ok, how) ==
  IF ok /\ Len(b) = 2 THEN Append(b, how)
  ELSE IF ok /\ how = "rollback" /\ Len(b) = 3 /\ b[3] = "commit"
       THEN Append(b, how)
       ELSE NoBlock

\* ------------------------------------------------------------- actions
Running == <<>>

OnScript(pos, outs) == [on |-> TRUE, pos |-> pos, outs |-> outs]

OffScript == [on |-> FALSE, pos |-> 0, outs |-> <<>>]

Fresh ==
  /\ layers = <<EmptyDict>>
  /\ call = <<"__init__">>
  /\ ret = None
  /\ saved = <<>>
  /\ block = NoBlock
  /\ input = <<"start">>
  /\ out = <<>>
  /\ exit = Running
  /\ script = OnScript(0, <<>>)

Init == Fresh /\ stdin = <<>>

Set(k, v) ==
  /\ layers' = set_value(layers, k, v)
  /\ call' = <<"set_value", k, v>>
  /\ ret' = None
  /\ block' = AfterWrite(block, <<"set_value", k, v>>)
  /\ UNCHANGED <<saved, console>>

Get(k) ==
  /\ call' = <<"get_value", k>>
  /\ ret' = get_value(layers, k)
  /\ block' = NoBlock
  /\ UNCHANGED <<layers, saved, console>>

Unset(k) ==
  /\ layers' = unset_value(layers, k)
  /\ call' = <<"unset_value", k>>
  /\ ret' = None
  /\ block' = AfterWrite(block, <<"unset_value", k>>)
  /\ UNCHANGED <<saved, console>>

Counts(v) ==
  /\ call' = <<"count_value", v>>
  /\ ret' = count_value(layers, v)
  /\ block' = NoBlock
  /\ UNCHANGED <<layers, saved, console>>

Find(v) ==
  /\ call' = <<"find_keys_by_value", v>>
  /\ \E order \in IterOrders(all_keys(layers)) :
       ret' = find_keys_by_value(layers, v, order)
  /\ block' = NoBlock
  /\ UNCHANGED <<layers, saved, console>>

BeginTxn ==
  /\ Len(layers) < MaxDepth
  /\ layers' = begin(layers)
  /\ call' = <<"begin">>
  /\ ret' = None
  /\ saved' = Append(saved, layers)
  /\ block' = <<"begin">>
  /\ UNCHANGED console

RollbackTxn ==
  /\ layers' = rollback(layers).layers
  /\ call' = <<"rollback">>
  /\ ret' = rollback(layers).ret
  /\ saved' = IF rollback(layers).ret THEN Pop(saved) ELSE saved
  /\ block' = AfterClose(block, rollback(layers).ret, "rollback")
  /\ UNCHANGED console

CommitTxn ==
  /\ layers' = commit(layers).layers
  /\ call' = <<"commit">>
  /\ ret' = commit(layers).ret
  /\ saved' = IF commit(layers).ret THEN Pop(saved) ELSE saved
  /\ block' = AfterClose(block, commit(layers).ret, "commit")
  /\ UNCHANGED console

Next ==
  \/ \E w \in Writes : Set(w[1], w[2])
  \/ \E k \in Keys : Get(k)
  \/ \E k \in Keys : Unset(k)
  \/ \E v \in Values : Counts(v)
  \/ \E v \in Values : Find(v)
  \/ BeginTxn
  \/ RollbackTxn
  \/ CommitTxn

Spec == Init /\ [][Next]_vars

\* ==================================================== the command loop
\* A line is the list of its tokens, line.strip().split(); a blank line has
\* none.  The non-blank lines a session reads: every command well formed,
\* in either case of letters, and every way of being malformed.
Lines ==
  {<<"SET", "a", "10">>, <<"SET", "a", "20">>, <<"SET", "b", "10">>,
   <<"GET", "a">>, <<"get", "a">>, <<"UNSET", "a">>, <<"COUNTS", "10">>,
   <<"FIND", "10">>, <<"BEGIN">>, <<"ROLLBACK">>, <<"COMMIT">>, <<"END">>,
   <<"end">>}
  \cup {<<"SET", "a">>, <<"GET">>, <<"UNSET", "a", "b">>, <<"COUNTS">>,
        <<"FIND", "10", "20">>, <<"BEGIN", "a">>, <<"ROLLBACK", "a">>,
        <<"COMMIT", "a">>, <<"FOO", "x">>, <<"END", "a">>}

\* The session of the end-to-end example, and the lines of a session that
\* follows it or leaves it.
Script ==
  << <<"SET", "a", "10">>, <<"GET", "a">>, <<"BEGIN">>, <<"SET", "a", "20">>,
     <<"GET", "a">>, <<"ROLLBACK">>, <<"GET", "a">>, <<"UNSET", "a">>,
     <<"GET", "a">>, <<"SET", "b", "10">>, <<"SET", "c", "10">>,
     <<"COUNTS", "10">>, <<"FIND", "10">> >>

ScriptLines ==
  {Script[i] : i \in DOMAIN Script}
  \cup {<<"COMMIT">>, <<"END">>, <<"FOO", "x">>}

\* str.upper() on the command names that occur in Lines
Upper(tok) ==
  IF tok = "get" THEN "GET" ELSE IF tok = "end" THEN "END" ELSE tok

\* cmd_name, *parts = line.split(); cmd = cmd_name.upper()
Cmd(line) == Upper(line[1])

Parts(line) == Tail(line)

\* str(int) for the counts that occur
IntToStr(n) == <<"0", "1", "2", "3", "4", "5", "6", "7", "8", "9">>[n + 1]

\* " ".join(keys)
RECURSIVE Join(_)
Join(keys) ==
  IF keys = <<>> THEN ""
  ELSE IF Len(keys) = 1 THEN keys[1]
       ELSE keys[1] \o " " \o Join(Tail(keys))

ExitOk == 0

ExitInterrupt == 130

\* What a handler did: ok is its result, out the lines it printed, call the
\* InMemoryDB method it called (NoCall when it called none).  What the method
\* returned stays inside the handler, which prints it.
NoCall == <<"no call">>

Refused(L) == [ok |-> FALSE, layers |-> L, out |-> <<>>, call |-> NoCall]

Handled(L, printed, c) == [ok |-> TRUE, layers |-> L, out |-> printed, call |-> c]

handle_set(db, args) ==
  IF Len(args) # 2 THEN Refused(db)
  ELSE Handled(set_value(db, args[1], args[2]), <<>>,
               <<"set_value", args[1], args[2]>>)

\* Mutant: GET prints the value as it is, None for a key that has none.
handle_get_prints_none(db, args) ==
  IF Len(args) # 1 THEN Refused(db)
  ELSE LET value == get_value(db, args[1])
       IN Handled(db, <<IF value # None THEN value[2] ELSE "None">>,
                  <<"get_value", args[1]>>)

handle_get(db, args) ==
  IF Len(args) # 1 THEN Refused(db)
  ELSE LET value == get_value(db, args[1])
       IN Handled(db, <<IF value # None THEN value[2] ELSE "NULL">>,
                  <<"get_value", args[1]>>)

handle_unset(db, args) ==
  IF Len(args) # 1 THEN Refused(db)
  ELSE Handled(unset_value(db, args[1]), <<>>, <<"unset_value", args[1]>>)

handle_counts(db, args) ==
  IF Len(args) # 1 THEN Refused(db)
  ELSE LET n == count_value(db, args[1])
       IN Handled(db, <<IntToStr(n)>>, <<"count_value", args[1]>>)

\* order is the order in which find_keys_by_value visits the keys.
handle_find(db, args, order) ==
  IF Len(args) # 1 THEN Refused(db)
  ELSE LET keys == find_keys_by_value(db, args[1], order)
       IN Handled(db, <<Join(keys)>>, <<"find_keys_by_value", args[1]>>)

\* Mutant: BEGIN does not look at its arguments.
handle_begin_any_args(db, args) == Handled(begin(db), <<>>, <<"begin">>)

handle_begin(db, args) ==
  IF Len(args) # 0 THEN Refused(db)
  ELSE Handled(begin(db), <<>>, <<"begin">>)

\* Mutant: the test of db.rollback() is inverted.
handle_rollback_inverted(db, args) ==
  IF Len(args) # 0 THEN Refused(db)
  ELSE LET r == rollback(db)
       IN Handled(r.layers, IF r.ret THEN <<"NO TRANSACTION">> ELSE <<>>,
                  <<"rollback">>)

handle_rollback(db, args) ==
  IF Len(args) # 0 THEN Refused(db)
  ELSE LET r == rollback(db)
       IN Handled(r.layers, IF ~r.ret THEN <<"NO TRANSACTION">> ELSE <<>>,
                  <<"rollback">>)

handle_commit(db, args) ==
  IF Len(args) # 0 THEN Refused(db)
  ELSE LET r == commit(db)
       IN Handled(r.layers, IF ~r.ret THEN <<"NO TRANSACTION">> ELSE <<>>,
                  <<"commit">>)

\* The keys of COMMANDS
CommandNames ==
  {"SET", "GET", "UNSET", "COUNTS", "FIND", "BEGIN", "ROLLBACK", "COMMIT"}

\* script after the line was read and printed was printed for it
Follow(sc, line, printed) ==
  IF sc.on /\ sc.pos < Len(Script) /\ line = Script[sc.pos + 1]
  THEN OnScript(sc.pos + 1, sc.outs \o printed)
  ELSE OffScript

\* ret, saved and block record the calls made on the store itself; the
\* loop makes its calls through the handlers and leaves them alone.
history == <<ret, saved, block>>

\* input("> ") returns a line: the loop is running and the stream has one.
Reads(line) ==
  /\ exit = Running
  /\ IF stdin = <<>> THEN TRUE ELSE stdin[1] > 0
  /\ input' = <<"line", line>>
  /\ stdin' = IF stdin = <<>> THEN stdin ELSE <<stdin[1] - 1>>

\* One turn of the loop for a line whose command has the handler result h:
\* ERROR is printed when the handler returned False.
Turn(line, h) ==
  /\ Reads(line)
  /\ layers' = h.layers
  /\ call' = h.call
  /\ out' = IF h.ok THEN h.out ELSE h.out \o <<"ERROR">>
  /\ exit' = Running
  /\ script' = Follow(script, line, out')
  /\ UNCHANGED history

\* if not line: continue
ReadBlank ==
  /\ Reads(<<>>)
  /\ out' = <<>>
  /\ call' = NoCall
  /\ script' = OffScript
  /\ UNCHANGED <<layers, exit, history>>

\* if cmd == "END": return 0
ReadEnd(line) ==
  /\ line # <<>> /\ Cmd(line) = "END"
  /\ Reads(line)
  /\ out' = <<>>
  /\ call' = NoCall
  /\ exit' = <<ExitOk>>
  /\ script' = OffScript
  /\ UNCHANGED <<layers, history>>

\* handler = COMMANDS.get(cmd) is None: ERROR
ReadUnknown(line) ==
  /\ line # <<>> /\ Cmd(line) \notin CommandNames \cup {"END"}
  /\ Turn(line, Refused(layers))

ForCmd(line, name) == line # <<>> /\ Cmd(line) = name

ReadSet(line) ==
  ForCmd(line, "SET") /\ Turn(line, handle_set(layers, Parts(line)))

ReadGet(line) ==
  ForCmd(line, "GET") /\ Turn(line, handle_get(layers, Parts(line)))

ReadUnset(line) ==
  ForCmd(line, "UNSET") /\ Turn(line, handle_unset(layers, Parts(line)))

ReadCounts(line) ==
  ForCmd(line, "COUNTS") /\ Turn(line, handle_counts(layers, Parts(line)))

ReadFind(line) ==
  /\ ForCmd(line, "FIND")
  /\ \E order \in IterOrders(all_keys(layers)) :
       Turn(line, handle_find(layers, Parts(line), order))

\* The model opens at most MaxOpen transactions; the code has no limit.
ReadBegin(line) ==
  /\ ForCmd(line, "BEGIN")
  /\ handle_begin(layers, Parts(line)).ok => Len(layers) <= MaxOpen
  /\ Turn(line, handle_begin(layers, Parts(line)))

ReadRollback(line) ==
  ForCmd(line, "ROLLBACK") /\ Turn(line, handle_rollback(layers, Parts(line)))

ReadCommit(line) ==
  ForCmd(line, "COMMIT") /\ Turn(line, handle_commit(layers, Parts(line)))

\* except EOFError: return 0
Eof ==
  /\ exit = Running
  /\ IF stdin = <<>> THEN TRUE ELSE stdin[1] = 0
  /\ input' = <<"eof">>
  /\ out' = <<>>
  /\ exit' = <<ExitOk>>
  /\ script' = OffScript
  /\ UNCHANGED <<layers, call, stdin, history>>

\* except KeyboardInterrupt: return 130
Interrupt ==
  /\ exit = Running
  /\ input' = <<"interrupt">>
  /\ out' = <<>>
  /\ exit' = <<ExitInterrupt>>
  /\ script' = OffScript
  /\ UNCHANGED <<layers, call, stdin, history>>

\* One turn of the while loop of main() when the lines come from LS
Loop(LS) ==
  \/ ReadBlank
  \/ \E line \in LS : ReadEnd(line)
  \/ \E line \in LS : ReadUnknown(line)
  \/ \E line \in LS : ReadSet(line)
  \/ \E line \in LS : ReadGet(line)
  \/ \E line \in LS : ReadUnset(line)
  \/ \E line \in LS : ReadCounts(line)
  \/ \E line \in LS : ReadFind(line)
  \/ \E line \in LS : ReadBegin(line)
  \/ \E line \in LS : ReadRollback(line)
  \/ \E line \in LS : ReadCommit(line)
  \/ Eof
  \/ Interrupt

NextMain == Loop(Lines)

\* main() on an input stream of any length
SpecMain == Init /\ [][NextMain]_vars

NextScript == Loop(ScriptLines)

\* main() on the lines of the end-to-end example, in any order
SpecScript == Init /\ [][NextScript]_vars

\* main() on an input stream of at most MaxInput lines; the loop never
\* stops by itself between two turns.
InitFinite == Fresh /\ stdin \in {<<n>> : n \in 0 .. MaxInput}

SpecFinite == InitFinite /\ [][NextMain]_vars /\ WF_vars(NextMain)

\* ============================================================== claims
\* The effective state: what get_value returns for every key.
Eff(L) == [k \in Keys |-> get_value(L, k)]

IsReal(e) == e # DELETED /\ e[1] = "str"

\* ---------------------------------------------------------------- C1
\* C1: in every reachable state the layer stack has length >= 1; no number
\* of commit and rollback calls removes the base layer.
C1_StackNeverEmpty == Len(layers) >= 1

\* rollback() was just called on a stack of one layer that holds entries,
\* and that layer is still there.
C1_Witness ==
  /\ call = <<"rollback">>
  /\ ret = FALSE
  /\ Len(layers) = 1
  /\ DOMAIN layers[1] = Keys

\* ---------------------------------------------------------------- C2
\* The layers that hold key, and the entry of the topmost of them.
Holders(L, key) == {i \in 1 .. Len(L) : key \in DOMAIN L[i]}

TopHolder(L, key) ==
  CHOOSE i \in Holders(L, key) : \A j \in Holders(L, key) : j <= i

Resolved(L, key) ==
  IF Holders(L, key) = {} THEN None
  ELSE LET e == L[TopHolder(L, key)][key]
       IN IF e = DELETED THEN None ELSE e

\* C2: get(k) is the entry of the topmost layer holding k when that entry is
\* a real value, and absent (None) when it is DELETED or no layer holds k;
\* this is so for every key in every reachable stack, and for the value a
\* get_value call has just returned.
C2_GetResolvesTopDown ==
  /\ \A k \in Keys : get_value(layers, k) = Resolved(layers, k)
  /\ call[1] = "get_value" => ret = Resolved(layers, call[2])

\* get_value("b") just returned None because the top layer holds DELETED for
\* b over a real value in the base, while a is missing from the top layer
\* and resolves to the real value of the layer below it, above a DELETED.
C2_Witness ==
  /\ call = <<"get_value", "b">>
  /\ ret = None
  /\ Len(layers) = 3
  /\ DOMAIN layers[3] = {"b"}
  /\ layers[3]["b"] = DELETED
  /\ "b" \in DOMAIN layers[1]
  /\ IsReal(layers[1]["b"])
  /\ "a" \in DOMAIN layers[2]
  /\ IsReal(layers[2]["a"])
  /\ "a" \in DOMAIN layers[1]
  /\ layers[1]["a"] = DELETED
  /\ get_value(layers, "a") = layers[2]["a"]

\* ---------------------------------------------------------------- C3
\* What one set or unset step does to the stack, entry by entry: e is the
\* entry written for key.
WritesOnly(key, e) ==
  LET n == Len(layers) IN
  /\ Len(layers') = n
  /\ \A i \in 1 .. n - 1 : layers'[i] = layers[i]
  /\ DOMAIN layers'[n] = (DOMAIN layers[n]) \cup {key}
  /\ layers'[n][key] = e
  /\ \A j \in (DOMAIN layers[n]) \ {key} : layers'[n][j] = layers[n][j]

C3_Step ==
  /\ call'[1] = "set_value" => WritesOnly(call'[2], Str(call'[3]))
  /\ call'[1] = "unset_value" => WritesOnly(call'[2], DELETED)

\* C3: set(k, v) changes exactly the top layer's entry for k, to v; unset(k)
\* changes exactly the top layer's entry for k, to DELETED, also when no
\* layer holds k; every other entry of the top layer, every lower layer and
\* the depth stay as they were.
C3_SetUnsetFrame == [][C3_Step]_vars

\* unset("a") ran right after begin() on a stack where no layer held a: the
\* new top layer holds exactly the DELETED entry for a, and the base layer,
\* which holds b, never held a.
C3_Witness ==
  /\ block = <<"begin", <<"unset_value", "a">>>>
  /\ Len(layers) = 2
  /\ DOMAIN layers[1] = {"b"}
  /\ DOMAIN layers[2] = {"a"}
  /\ layers[2]["a"] = DELETED

\* ---------------------------------------------------------------- C4
\* C4: immediately after unset(k), at any depth, get(k) is absent, whatever
\* the lower layers hold for k.
C4_UnsetThenAbsent ==
  call[1] = "unset_value" => get_value(layers, call[2]) = None

\* unset("a") just ran on a stack of three layers whose two lower layers
\* both hold a real value for a.
C4_Witness ==
  /\ call = <<"unset_value", "a">>
  /\ Len(layers) = 3
  /\ "a" \in DOMAIN layers[1] /\ IsReal(layers[1]["a"])
  /\ "a" \in DOMAIN layers[2] /\ IsReal(layers[2]["a"])
  /\ get_value(layers, "a") = None

\* ---------------------------------------------------------------- C5
C5_Step ==
  (call' = <<"commit">> /\ Len(layers) >= 2) =>
    LET n == Len(layers)
        top == layers[n]
        below == layers[n - 1]
        new == layers'[n - 1]
    IN /\ ret' = TRUE
       /\ Len(layers') = n - 1
       /\ \A i \in 1 .. n - 2 : layers'[i] = layers[i]
       /\ DOMAIN new = (DOMAIN below) \cup (DOMAIN top)
       /\ \A k \in DOMAIN top : new[k] = top[k]
       /\ \A k \in (DOMAIN below) \ (DOMAIN top) : new[k] = below[k]

\* C5: with at least two layers, commit() returns true and removes exactly
\* one layer; the layer that was below the top then holds the old top
\* layer's entry (real value or DELETED) for every key of the old top layer
\* and its own previous entry for every other key; the layers further down
\* are unchanged.
C5_CommitMerges == [][C5_Step]_vars

\* begin(); unset("a"); commit() just ran two transactions deep: the layer
\* merged into now holds the DELETED entry for a over a real value in the
\* base, and still holds its own entry for b.
C5_Witness ==
  /\ block = <<"begin", <<"unset_value", "a">>, "commit">>
  /\ call = <<"commit">>
  /\ ret = TRUE
  /\ Len(layers) = 2
  /\ DOMAIN layers[2] = {"a", "b"}
  /\ layers[2]["a"] = DELETED
  /\ IsReal(layers[2]["b"])
  /\ "a" \in DOMAIN layers[1] /\ IsReal(layers[1]["a"])

\* ---------------------------------------------------------------- C6
C6_Step ==
  (call' = <<"rollback">> /\ Len(layers) >= 2) =>
    /\ ret' = TRUE
    /\ Len(layers') = Len(layers) - 1
    /\ \A i \in 1 .. Len(layers) - 1 :
         /\ DOMAIN layers'[i] = DOMAIN layers[i]
         /\ \A k \in DOMAIN layers[i] : layers'[i][k] = layers[i][k]

\* C6: with at least two layers, rollback() returns true, removes exactly
\* the top layer and leaves every remaining layer, keys and entries, as it
\* was.
C6_RollbackDiscardsTop == [][C6_Step]_vars

\* rollback() just discarded the third layer, which held a write; the two
\* layers that remain both hold entries.
C6_Witness ==
  /\ block = <<"begin", <<"set_value", "a", "20">>, "rollback">>
  /\ call = <<"rollback">>
  /\ ret = TRUE
  /\ Len(layers) = 2
  /\ DOMAIN layers[1] = Keys
  /\ DOMAIN layers[2] = Keys

\* ---------------------------------------------------------------- C7
C7_Step ==
  (call'[1] \in {"rollback", "commit"} /\ Len(layers) = 1) =>
    /\ ret' = FALSE
    /\ Len(layers') = 1
    /\ layers'[1] = layers[1]
    /\ \A k \in Keys : get_value(layers', k) = get_value(layers, k)

\* C7: with only the base layer, rollback() and commit() return false and
\* leave the base layer's entries, the depth and every key's effective value
\* as they were.
C7_NoTransaction == [][C7_Step]_vars

\* commit() was just refused on a base layer that holds a real value and a
\* DELETED entry.
C7_Witness ==
  /\ call = <<"commit">>
  /\ ret = FALSE
  /\ Len(layers) = 1
  /\ DOMAIN layers[1] = Keys
  /\ layers[1]["a"] = DELETED
  /\ IsReal(layers[1]["b"])

\* ---------------------------------------------------------------- C8
\* saved holds the stack as it was at each begin() that is still open, so at
\* a successful rollback its last element is the stack before the matching
\* begin(), whatever balanced blocks ran in between.
C8_Step ==
  (call' = <<"rollback">> /\ ret' = TRUE) =>
    \A k \in Keys : get_value(layers', k) = get_value(saved[Len(saved)], k)

C8_Nested ==
  \A k \in Keys, va \in Values, vb \in Values :
    LET inner == set_value(begin(set_value(begin(layers), k, va)), k, vb)
    IN get_value(rollback(inner).layers, k) = Str(va)

\* C8: a rollback() restores every key's effective value to what it was
\* before the matching begin(), whatever set/unset calls and balanced nested
\* blocks ran in between; and from every reachable state
\* begin(); set(k,va); begin(); set(k,vb); rollback() leaves get(k) = va.
C8_BeginRollbackRestores == [] C8_Nested /\ [][C8_Step]_vars

\* begin(); set("a","20"); rollback() just ran inside a transaction that had
\* set a to "10": a reads "10" again, and the stack recorded at the outer
\* begin() is still its lower part.
C8_Witness ==
  /\ block = <<"begin", <<"set_value", "a", "20">>, "rollback">>
  /\ Len(layers) = 2
  /\ DOMAIN layers[2] = {"a"}
  /\ layers[2]["a"] = Str("10")
  /\ get_value(layers, "a") = Str("10")
  /\ saved = <<Pop(layers)>>

\* ---------------------------------------------------------------- C9
C9_FromHere ==
  \A k \in Keys, v \in Values :
    LET viaTxn == commit(set_value(begin(layers), k, v)).layers
        direct == set_value(layers, k, v)
    IN /\ Eff(viaTxn) = Eff(direct)
       /\ Len(viaTxn) = Len(direct)

C9_Step ==
  (Len(block') = 3 /\ block'[3] = "commit" /\ block'[2][1] = "set_value") =>
    LET direct == set_value(saved[Len(saved)], block'[2][2], block'[2][3])
    IN /\ Eff(layers') = Eff(direct)
       /\ Len(layers') = Len(direct)

\* C9: from every reachable state and for every k and v,
\* begin(); set(k,v); commit() gives the same effective value for every key
\* and the same depth as set(k,v) alone from that state; and every run of
\* these three calls ends in the state set(k,v) alone gives from the stack
\* recorded at the begin().
C9_TxnSetEqualsSet == [] C9_FromHere /\ [][C9_Step]_vars

\* begin(); set("a","10"); commit() just ran inside an open transaction
\* whose layer holds DELETED for b, over a base that holds "20" for a.
C9_Witness ==
  /\ block = <<"begin", <<"set_value", "a", "10">>, "commit">>
  /\ Len(layers) = 2
  /\ DOMAIN layers[2] = Keys
  /\ layers[2]["a"] = Str("10")
  /\ layers[2]["b"] = DELETED
  /\ DOMAIN layers[1] = Keys
  /\ layers[1]["a"] = Str("20")
  /\ IsReal(layers[1]["b"])

\* --------------------------------------------------------------- C10
\* The calls after which the value set for k need not be read any more.
C10_Ends(k) ==
  \/ call'[1] = "rollback"
  \/ call'[1] \in {"set_value", "unset_value"} /\ call'[2] = k

C10_Step ==
  \A k \in Keys :
    LET before == get_value(layers, k)
        after == get_value(layers', k)
    IN /\ (call'[1] = "set_value" /\ call'[2] = k) => after = Str(call'[3])
       /\ (before # None /\ ~C10_Ends(k)) => after = before

\* C10: right after set(k, v), get(k) is v; and a key that reads v keeps
\* reading v over every step that is not a set or unset of k or a rollback:
\* begin, commit, the reads, and set/unset of other keys do not change it.
C10_SetPersists == [][C10_Step]_vars

\* begin(); set("a","20"); commit() just ran down to the base layer, and a
\* still reads "20" after the commit, next to a DELETED entry for b.
C10_Witness ==
  /\ block = <<"begin", <<"set_value", "a", "20">>, "commit">>
  /\ call = <<"commit">>
  /\ Len(layers) = 1
  /\ get_value(layers, "a") = Str("20")
  /\ "b" \in DOMAIN layers[1]
  /\ layers[1]["b"] = DELETED

\* --------------------------------------------------------------- C11
\* The keys whose effective value is v, by the topmost layer that holds them.
Matching(L, v) == {k \in Keys : Resolved(L, k) = Str(v)}

\* C11: for every value v, countByValue(v) is the number of keys whose
\* effective value is v, in every reachable state and for the number a
\* count_value call has just returned: a key held only by a lower layer
\* counts, a key whose topmost entry is DELETED or another value does not.
C11_CountIsEffective ==
  /\ \A v \in Values : count_value(layers, v) = Cardinality(Matching(layers, v))
  /\ call[1] = "count_value" => ret = Cardinality(Matching(layers, call[2]))

\* count_value("10") just returned 1 on three layers: b holds "10" in the
\* base layer only and counts; a holds "10" in the base layer but "20" in
\* the layer above it, and does not.
C11_Witness ==
  /\ call = <<"count_value", "10">>
  /\ ret = 1
  /\ Len(layers) = 3
  /\ DOMAIN layers[1] = {"a", "b"}
  /\ layers[1]["a"] = Str("10")
  /\ layers[1]["b"] = Str("10")
  /\ DOMAIN layers[2] = {"a"}
  /\ layers[2]["a"] = Str("20")
  /\ DOMAIN layers[3] = {}

\* --------------------------------------------------------------- C12
\* C12: in every reachable state and for every value v, countByValue(v) is
\* the number of keys findByValue(v) returns, whatever the order in which
\* the loops visit the keys.
C12_CountEqualsFindLen ==
  \A v \in Values : \A order \in IterOrders(all_keys(layers)) :
    count_value(layers, v) = Len(find_keys_by_value(layers, v, order))

\* find_keys_by_value("10") just returned both keys, each of which is held
\* by two layers, and count_value("10") is 2.
C12_Witness ==
  /\ call = <<"find_keys_by_value", "10">>
  /\ ret = <<"a", "b">>
  /\ Len(layers) = 2
  /\ DOMAIN layers[1] = Keys
  /\ DOMAIN layers[2] = Keys
  /\ count_value(layers, "10") = 2

\* --------------------------------------------------------------- C13
StrictlyAscending(keys) ==
  \A i, j \in 1 .. Len(keys) : i < j => Ord(keys[i]) < Ord(keys[j])

\* C13: findByValue(v) is in strictly ascending order with no key repeated,
\* for every value, in every reachable state and every order of visit, also
\* when a key is held by several layers; so is the list a find_keys_by_value
\* call has just returned.
C13_FindSorted ==
  /\ \A v \in Values : \A order \in IterOrders(all_keys(layers)) :
       StrictlyAscending(find_keys_by_value(layers, v, order))
  /\ call[1] = "find_keys_by_value" => StrictlyAscending(ret)

\* find_keys_by_value("10") just returned <<"a", "b">> on three layers that
\* all hold both keys.
C13_Witness ==
  /\ call = <<"find_keys_by_value", "10">>
  /\ ret = <<"a", "b">>
  /\ Len(layers) = 3
  /\ \A i \in 1 .. 3 : DOMAIN layers[i] = Keys

\* --------------------------------------------------------------- C19
\* What the reads show: every key's value, and the count and the list of
\* keys for every value (the list is the same in every order of visit).
Visible(L) ==
  [get |-> Eff(L),
   count |-> [v \in Values |-> count_value(L, v)],
   find |-> [v \in Values |->
              {find_keys_by_value(L, v, o) : o \in IterOrders(all_keys(L))}]]

\* --------------------------------------------------------------- C14
\* What the end-to-end session prints, line by line, as the example states
\* it and as the program prints it.
C14_Stated == <<"10", "20", "10", "NULL", "1", "b">>

C14_Printed == <<"10", "20", "10", "NULL", "2", "b c">>

\* C14 as stated: a session that reads exactly the thirteen lines SET a 10,
\* GET a, BEGIN, SET a 20, GET a, ROLLBACK, GET a, UNSET a, GET a, SET b 10,
\* SET c 10, COUNTS 10, FIND 10 from a fresh store has printed 10, 20, 10,
\* NULL, 1 and b.
C14_Original ==
  script.on /\ script.pos = Len(Script) => script.outs = C14_Stated

\* C14, amended: the same session prints 10, 20, 10, NULL for the four
\* GETs, then 2 for COUNTS 10 (b and c both hold 10) and "b c" for FIND 10;
\* while it is still on the way, what it has printed is the beginning of
\* that list.
C14_EndToEnd ==
  script.on =>
    /\ Len(script.outs) <= Len(C14_Printed)
    /\ script.outs = SubSeq(C14_Printed, 1, Len(script.outs))
    /\ script.pos = Len(Script) => script.outs = C14_Printed

\* The whole example has been read, FIND 10 last, with b and c in the base
\* layer and a deleted there.
C14_Witness ==
  /\ script.on /\ script.pos = Len(Script)
  /\ input = <<"line", <<"FIND", "10">>>>
  /\ out = <<"b c">>
  /\ layers = <<[a |-> DELETED, b |-> Str("10"), c |-> Str("10")]>>

\* --------------------------------------------------------------- C15
\* The number of arguments each command of COMMANDS takes.
Arity ==
  [SET |-> 2, GET |-> 1, UNSET |-> 1, COUNTS |-> 1, FIND |-> 1, BEGIN |-> 0,
   ROLLBACK |-> 0, COMMIT |-> 0]

Unrecognized(line) == Cmd(line) \notin CommandNames \cup {"END"}

WrongArity(line) ==
  Cmd(line) \in CommandNames /\ Len(Parts(line)) # Arity[Cmd(line)]

WellFormed(line) ==
  Cmd(line) \in CommandNames /\ Len(Parts(line)) = Arity[Cmd(line)]

C15_Step ==
  \A line \in Lines :
    input' = <<"line", line>> /\ (Unrecognized(line) \/ WrongArity(line)) =>
      /\ out' = <<"ERROR">>
      /\ call' = NoCall
      /\ layers' = layers
      /\ exit' = Running

\* C15: a line with an unrecognized command name, SET without exactly two
\* arguments, GET, UNSET, COUNTS or FIND without exactly one, or BEGIN,
\* ROLLBACK or COMMIT with an argument prints ERROR and nothing else, calls
\* no method of the store, leaves the layer stack as it was, and leaves the
\* loop running.
C15_MalformedPrintsError == [][C15_Step]_vars

\* BEGIN with an argument was refused inside a transaction over a base
\* layer that holds a value.
C15_Witness ==
  /\ input = <<"line", <<"BEGIN", "a">>>>
  /\ out = <<"ERROR">>
  /\ exit = Running
  /\ Len(layers) = 2
  /\ layers[1] # EmptyDict

\* --------------------------------------------------------------- C16
C16_Step ==
  \A line \in Lines :
    input' = <<"line", line>> /\ Cmd(line) = "END" =>
      IF Parts(line) = <<>>
      THEN exit' = <<ExitOk>>
      ELSE out' = <<"ERROR">> /\ exit' = Running

\* C16: END ends the session only on a line with no further token; a line
\* whose first token is END followed by arguments prints ERROR and leaves
\* the loop running.
C16_EndTakesNoArguments == [][C16_Step]_vars

\* --------------------------------------------------------------- C17
C17_Step ==
  \A line \in Lines :
    input' = <<"line", line>> /\ WellFormed(line) =>
      /\ Cmd(line) \in {"ROLLBACK", "COMMIT"} =>
           /\ out' = <<"NO TRANSACTION">> <=> Len(layers) = 1
           /\ out' # <<"NO TRANSACTION">> => out' = <<>>
           /\ exit' = Running
      /\ Cmd(line) \in {"SET", "UNSET", "BEGIN"} => out' = <<>>
      /\ Cmd(line) \in {"ROLLBACK", "COMMIT", "SET", "UNSET", "BEGIN"} =>
           \A i \in DOMAIN out' : out'[i] # "ERROR"

\* C17: a well-formed ROLLBACK or COMMIT prints NO TRANSACTION exactly when
\* the stack holds only the base layer as it runs and prints nothing
\* otherwise; a well-formed SET, UNSET or BEGIN prints nothing; none of them
\* prints ERROR, and the loop is running after a NO TRANSACTION.
C17_NoTransactionReport == [][C17_Step]_vars

\* ROLLBACK has just reported NO TRANSACTION over a base layer that holds a
\* value, and the loop is running.
C17_Witness ==
  /\ input = <<"line", <<"ROLLBACK">>>>
  /\ out = <<"NO TRANSACTION">>
  /\ exit = Running
  /\ Len(layers) = 1
  /\ layers[1] # EmptyDict

\* --------------------------------------------------------------- C18
\* The lines that may end the session: END with no further token.
C18_Step ==
  /\ exit # Running =>
       exit \in {<<ExitOk>>, <<ExitInterrupt>>} /\ ExitOk # ExitInterrupt
  /\ exit = Running /\ exit' # Running =>
       \/ input' = <<"line", <<"END">>>> /\ exit' = <<ExitOk>>
       \/ input' = <<"line", <<"end">>>> /\ exit' = <<ExitOk>>
       \/ input' = <<"eof">> /\ exit' = <<ExitOk>>
       \/ input' = <<"interrupt">> /\ exit' = <<ExitInterrupt>>

\* C18: the loop ends with exit code 0 on END and on end of input and with
\* 130 on an interrupt; no other line, valid, malformed or blank, ends it;
\* on a finite input stream it ends.
C18_ExitCodes == [][C18_Step]_vars /\ <>(exit # Running)

C19_Step ==
  (call' = <<"begin">> \/ (call' = <<"commit">> /\ ret' = TRUE)) =>
    /\ Visible(layers') = Visible(layers)
    /\ Len(layers') # Len(layers)

\* C19: begin() and a successful commit() change nothing that is visible:
\* get(k) for every key, countByValue(v) and findByValue(v) for every value
\* are the same right after the call as right before it; only the depth
\* changes.
C19_BeginCommitInvisible == [][C19_Step]_vars

\* commit() just merged a layer into the base: the base now holds a DELETED
\* entry for a and "10" for b, one key reads "10", and the stack is back to
\* one layer.
C19_Witness ==
  /\ call = <<"commit">>
  /\ ret = TRUE
  /\ Len(layers) = 1
  /\ DOMAIN layers[1] = Keys
  /\ layers[1]["a"] = DELETED
  /\ layers[1]["b"] = Str("10")
  /\ count_value(layers, "10") = 1

\* --------------------------------------------------------------- C20
\* begin(); begin(); one set or unset; commit(); rollback() from here.
C20_Run(L, write) ==
  LET inner == begin(begin(L))
      written == IF write[1] = "set_value"
                 THEN set_value(inner, write[2], write[3])
                 ELSE unset_value(inner, write[2])
  IN rollback(commit(written).layers).layers

C20_FromHere ==
  \A k \in Keys :
    /\ Eff(C20_Run(layers, <<"unset_value", k>>)) = Eff(layers)
    /\ \A v \in Values : Eff(C20_Run(layers, <<"set_value", k, v>>)) = Eff(layers)

\* A rollback that follows a commit of a nested transaction: saved still
\* holds the stack of the enclosing begin().
C20_Step ==
  (call = <<"commit">> /\ ret = TRUE /\ call' = <<"rollback">> /\ ret' = TRUE) =>
    Eff(layers') = Eff(saved[Len(saved)])

\* C20: a commit of a nested transaction is not final while an enclosing
\* transaction is open: a rollback right after a nested commit restores
\* every key's effective value to its value before the enclosing begin(),
\* and begin(); begin(); set or unset; commit(); rollback() from any
\* reachable state leaves every effective value as it was, for real values
\* and DELETED entries alike.
C20_NestedCommitNotFinal == [] C20_FromHere /\ [][C20_Step]_vars

\* begin(); unset("a"); commit(); rollback() just ran: the DELETED entry the
\* inner transaction committed is gone with the enclosing transaction, and a
\* reads the base layer's "10" again.
C20_Witness ==
  /\ block = <<"begin", <<"unset_value", "a">>, "commit", "rollback">>
  /\ call = <<"rollback">>
  /\ ret = TRUE
  /\ Len(layers) = 1
  /\ get_value(layers, "a") = Str("10")

====
